---------------------------- MODULE Spec2Model ----------------------------
(***************************************************************************)
(* A model of the Thai <-> Taiwanese live interpreter front end:           *)
(*   - the PCM codec of src/utils/audioUtils.ts (createPcmBlob, encode,    *)
(*     decode, decodeAudioData),                                           *)
(*   - the GeminiLiveService of src/services/geminiLiveService.ts          *)
(*     (connect, startInputStream, handleServerMessage, disconnect),       *)
(*   - the App component of src/App.tsx (handleTranscription,              *)
(*     handleConnect, handleDisconnect) with the buttons of                *)
(*     src/components/Controls.tsx.                                        *)
(*                                                                         *)
(* Six specifications share the definitions:                               *)
(*   SpecCodec      the codec applied to bounded inputs,                    *)
(*   SpecPlayback   one connected service: audio messages, interruptions,   *)
(*                  the output clock and the 'ended' events,                *)
(*   SpecSession    SpecPlayback with the End Session teardown,             *)
(*   SpecTranscript sessions that carry transcripts, started and ended by   *)
(*                  the user,                                               *)
(*   Spec           the application life cycle: start and end actions,      *)
(*                  several services, microphone denial, session errors.    *)
(*   SpecCapture    Spec with microphone capture and the fulfilment of the  *)
(*                  session promise.                                        *)
(*                                                                         *)
(* Scheduling.  The program is single-threaded JavaScript: a callback runs *)
(* to completion, and the continuation of an `await` on an already settled *)
(* promise (the await of decodeAudioData, an async function without an     *)
(* await of its own) is a microtask, which runs before the event loop      *)
(* dispatches any other event.  The awaits on AudioContext.resume(),       *)
(* getUserMedia() and AudioContext.close() are settled by the platform in  *)
(* a later task: other callbacks can run in between.                       *)
(***************************************************************************)
EXTENDS Integers, Sequences, FiniteSets, TLC

VARIABLES
    \* ---- codec (SpecCodec) ----
    pcmIn,        \* Float32Array handed to createPcmBlob: numerators n of the samples n / SampleDen
    pcmStage,     \* "in" | "encoded" | "decoded"
    pcmBlob,      \* Blob.data: the base64 text, as alphabet positions 0..63 and 64 for '='
    pcmOut,       \* AudioBuffer channel data of decodeAudioData: numerators v of the samples v / 32768
    \* ---- App component ----
    apiKey,               \* process.env.API_KEY is set (fixed by the build)
    connectionState,      \* useState<ConnectionState>
    errorMsg,             \* useState<string | null>
    audioAnalyser,        \* useState<AnalyserNode | null>: 0, or the service whose analyser it is
    transcriptionHistory, \* useState<TranscriptionItem[]>
    serviceRef,           \* useRef<GeminiLiveService | null>: 0, or the service
    \* ---- GeminiLiveService objects ----
    svc,          \* service id -> the object's fields and the platform objects it owns
    hd,           \* service id -> position of the handleDisconnect call awaiting its disconnect()
    hsm,          \* the handleServerMessage call suspended at `await decodeAudioData`, or NoCall
    \* ---- history variables (not program state) ----
    ev,           \* what the last step did
    cbCount       \* number of onTranscription callbacks dispatched so far

codecVars == <<pcmIn, pcmStage, pcmBlob, pcmOut>>
appVars == <<apiKey, connectionState, errorMsg, audioAnalyser, transcriptionHistory, serviceRef>>
svcVars == <<svc, hd, hsm>>
histVars == <<ev, cbCount>>
vars == <<pcmIn, pcmStage, pcmBlob, pcmOut, apiKey, connectionState, errorMsg,
          audioAnalyser, transcriptionHistory, serviceRef, svc, hd, hsm, ev, cbCount>>

Max(a, b) == IF a >= b THEN a ELSE b
Min(a, b) == IF a <= b THEN a ELSE b

(***************************************************************************)
(*                              PCM codec                                  *)
(***************************************************************************)

\* Bounds of the codec inputs: samples are n / SampleDen for n in
\* -2*SampleDen .. 2*SampleDen (the range [-2, 2]), arrays hold 1..MaxPcmLen samples.
SampleDen == 10
MaxPcmLen == 2

SampleNums == (0 - 2 * SampleDen) .. (2 * SampleDen)

\* Math.max(-1, Math.min(1, data[i])) on the numerator of a sample.
ClampSampleNone(n) == n
ClampSample(n) == Max(0 - SampleDen, Min(SampleDen, n))

\* Storing a number into an Int16Array element: truncate toward zero (num / den
\* with den > 0), then wrap modulo 2^16 into -32768 .. 32767.
TruncDiv(num, den) == IF num >= 0 THEN num \div den ELSE 0 - ((0 - num) \div den)
ToInt16(num, den) ==
    LET t == TruncDiv(num, den)
        u == t % 65536
    IN  IF u >= 32768 THEN u - 65536 ELSE u

\* s < 0 ? s * 0x8000 : s * 0x7FFF, stored into int16[i].
PcmSample(n) ==
    LET s == ClampSample(n)
    IN  IF s < 0 THEN ToInt16(s * 32768, SampleDen) ELSE ToInt16(s * 32767, SampleDen)

\* new Uint8Array(int16.buffer): two bytes per element, low byte first.
Int16Bytes(v) ==
    LET u == v % 65536
    IN  <<u % 256, u \div 256>>

RECURSIVE BytesOf(_)
BytesOf(int16s) ==
    IF int16s = <<>> THEN <<>>
    ELSE Int16Bytes(Head(int16s)) \o BytesOf(Tail(int16s))

\* encode(): btoa of the bytes, three bytes to four characters, '=' padding (64).
RECURSIVE encode(_)
encode(bytes) ==
    IF Len(bytes) = 0 THEN <<>>
    ELSE IF Len(bytes) = 1 THEN
        <<bytes[1] \div 4, (bytes[1] % 4) * 16, 64, 64>>
    ELSE IF Len(bytes) = 2 THEN
        <<bytes[1] \div 4, (bytes[1] % 4) * 16 + bytes[2] \div 16, (bytes[2] % 16) * 4, 64>>
    ELSE
        <<bytes[1] \div 4, (bytes[1] % 4) * 16 + bytes[2] \div 16,
          (bytes[2] % 16) * 4 + bytes[3] \div 64, bytes[3] % 64>>
        \o encode(SubSeq(bytes, 4, Len(bytes)))

\* createPcmBlob(data).data
createPcmBlob(data) == encode(BytesOf([i \in 1..Len(data) |-> PcmSample(data[i])]))

\* decode(): atob of the text, four characters to up to three bytes.
RECURSIVE decode(_)
decode(base64) ==
    IF Len(base64) < 4 THEN <<>>
    ELSE
        LET c == SubSeq(base64, 1, 4)
            b1 == c[1] * 4 + c[2] \div 16
            b2 == (c[2] % 16) * 16 + c[3] \div 4
            b3 == (c[3] % 4) * 64 + c[4]
            rest == decode(SubSeq(base64, 5, Len(base64)))
        IN  IF c[3] = 64 THEN <<b1>> \o rest
            ELSE IF c[4] = 64 THEN <<b1, b2>> \o rest
            ELSE <<b1, b2, b3>> \o rest

\* new Int16Array(bytes.buffer): element i is bytes 2i-1 (low) and 2i (high), signed.
Int16AtBigEndian(bytes, i) ==
    LET u == 256 * bytes[2 * i - 1] + bytes[2 * i]
    IN  IF u >= 32768 THEN u - 65536 ELSE u
Int16At(bytes, i) ==
    LET u == bytes[2 * i - 1] + 256 * bytes[2 * i]
    IN  IF u >= 32768 THEN u - 65536 ELSE u

\* decodeAudioData(base64Str, ctx, 24000, 1): channelData[i] = dataInt16[i] / 32768.0,
\* kept as the numerator over 32768.
decodeAudioData(base64Str) ==
    LET bytes == decode(base64Str)
        frameCount == Len(bytes) \div 2
    IN  [i \in 1..frameCount |-> Int16At(bytes, i)]

PcmInputs == UNION {[1..k -> SampleNums] : k \in 1..MaxPcmLen}

(***************************************************************************)
(*                          GeminiLiveService                              *)
(***************************************************************************)

\* Bounds of the service model.
\* GeminiLiveService objects constructed in one behaviour
MaxServices == 2
\* the output context's clock runs 0..MaxTime
MaxTime == 2
\* AudioBufferSourceNodes created by one service
MaxNodes == 3
\* audio chunks last 1..MaxDur clock units
MaxDur == 2
\* onTranscription callbacks dispatched in one behaviour
MaxCallbacks == 2
\* microphone chunks one service captures in one behaviour
MaxChunks == 2

Services == 1..MaxServices
Durations == 1..MaxDur
Texts == {"", " ", "hi"}

\* A GeminiLiveService that `new` has not produced yet.  The fields are those of
\* the class; inCtx, outCtx, currentTime, nodes and sess are the platform objects
\* the service owns (the two AudioContexts, the output context's clock, the
\* buffer source nodes, the remote live session); the rest is history.
SvcNew ==
    [created |-> FALSE,
     cpc |-> "none",             \* position of connect(): none, resumeIn, resumeOut, getUserMedia, done, failed
     outSuspended |-> FALSE,     \* the output context was created suspended (iOS)
     session |-> FALSE,          \* this.session is not null
     inputAudioContext |-> FALSE,
     outputAudioContext |-> FALSE,
     outputNode |-> FALSE,
     inputSource |-> FALSE,
     scriptProcessor |-> FALSE,
     nextStartTime |-> 0,
     sources |-> {},             \* indices into nodes
     inCtx |-> "none",           \* none, running, closing (close() called), closed
     outCtx |-> "none",
     currentTime |-> 0,          \* outputAudioContext.currentTime
     nodes |-> <<>>,             \* every AudioBufferSourceNode created, in order
     sess |-> "none",            \* none, connecting, open, dead
     chain |-> FALSE,            \* a node was scheduled since the last interruption
     inCloseCalls |-> 0,         \* close() calls on the input context (counted to 2)
     outCloseCalls |-> 0,
     discThrew |-> FALSE,        \* a disconnect() call ended in an exception
     discCompleted |-> FALSE,    \* a disconnect() call ran to its last line
     sessResolved |-> FALSE,     \* the promise live.connect() returned is fulfilled
     queued |-> 0,               \* then-callbacks of onaudioprocess waiting for that promise
     chunks |-> 0,               \* microphone chunks captured (onaudioprocess past its guard)
     sentAfterDisc |-> FALSE]    \* sendRealtimeInput was called after a disconnect() completed

NoCall == [s |-> 0]

\* Outcomes of creating a node on a context: a running context creates it; on a
\* context that close() was called on, browsers differ (the node is created, or
\* InvalidStateError is thrown).
CreateOutcomes(ctx) == IF ctx = "running" THEN {TRUE} ELSE {TRUE, FALSE}

\* source.stop() on every node of the set: a node that has not started never
\* plays, a playing one is cut off.
StopAllNone(nodes, set) == nodes
StopAll(nodes, set) ==
    [k \in 1..Len(nodes) |->
        IF k \in set /\ nodes[k].state = "scheduled" THEN [nodes[k] EXCEPT !.state = "cancelled"]
        ELSE IF k \in set /\ nodes[k].state = "playing" THEN [nodes[k] EXCEPT !.state = "stopped"]
        ELSE nodes[k]]

\* this.sources.clear()
ClearedSourcesKept(set) == set
ClearedSources(set) == {}

\* Math.max(this.nextStartTime, this.outputAudioContext.currentTime)
ScheduleStartUnclamped(nextStartTime, currentTime) == nextStartTime
ScheduleStart(nextStartTime, currentTime) == Max(nextStartTime, currentTime)

\* this.nextStartTime += audioBuffer.duration
AdvanceWatermarkNone(nextStartTime, duration) == nextStartTime
AdvanceWatermark(nextStartTime, duration) == nextStartTime + duration

\* handleServerMessage, part 3: the interruption.
Interrupt(sr) ==
    [sr EXCEPT !.nodes = StopAll(sr.nodes, sr.sources),
               !.sources = ClearedSources(sr.sources),
               !.nextStartTime = 0,
               !.chain = FALSE]

\* handleServerMessage, the body of the try block after the await: the node is
\* created, started at the watermark, the watermark advanced, the node added.
Scheduled(sr, dur) ==
    LET node == [start |-> sr.nextStartTime,
                 dur |-> dur,
                 at |-> sr.currentTime,
                 chained |-> sr.chain,
                 state |-> IF sr.nextStartTime <= sr.currentTime
                           THEN "playing" ELSE "scheduled"]
    IN  [sr EXCEPT !.nodes = Append(sr.nodes, node),
                   !.nextStartTime = AdvanceWatermark(sr.nextStartTime, dur),
                   !.sources = sr.sources \cup {Len(sr.nodes) + 1},
                   !.chain = TRUE]

\* handleServerMessage, the catch block: the error is logged, nothing else.
DecodeFailedStops(sr) ==
    [sr EXCEPT !.nodes = StopAll(sr.nodes, sr.sources), !.sources = {}]
DecodeFailed(sr) == sr

\* The moment a node stops sounding by itself.
EndTime(node) == Max(node.start, node.at) + node.dur

Count2(n) == Min(n + 1, 2)

\* disconnect(), from "Stop Output" on: [sv: the service, pc: where the call is].
DisconnectOutput(sr) ==
    LET sr1 == [sr EXCEPT !.nodes = StopAll(sr.nodes, sr.sources),
                          !.sources = ClearedSources(sr.sources)]
    IN  IF sr1.outputAudioContext THEN
            IF sr1.outCtx = "running" THEN
                [sv |-> [sr1 EXCEPT !.outCtx = "closing",
                                    !.outCloseCalls = Count2(sr1.outCloseCalls)],
                 pc |-> "awaitOut"]
            ELSE
                \* close() on a context already closed or closing rejects
                \* (InvalidStateError): the await throws out of disconnect().
                [sv |-> [sr1 EXCEPT !.outCloseCalls = Count2(sr1.outCloseCalls),
                                    !.discThrew = TRUE],
                 pc |-> "threw"]
        ELSE
            [sv |-> [sr1 EXCEPT !.session = FALSE, !.discCompleted = TRUE], pc |-> "done"]

\* disconnect(), from its first line to its first await.
DisconnectStart(sr) ==
    LET sr1 == [sr EXCEPT !.inputSource = FALSE, !.scriptProcessor = FALSE]
    IN  IF sr1.inputAudioContext THEN
            IF sr1.inCtx = "running" THEN
                [sv |-> [sr1 EXCEPT !.inCtx = "closing",
                                    !.inCloseCalls = Count2(sr1.inCloseCalls)],
                 pc |-> "awaitIn"]
            ELSE
                [sv |-> [sr1 EXCEPT !.inCloseCalls = Count2(sr1.inCloseCalls),
                                    !.discThrew = TRUE],
                 pc |-> "threw"]
        ELSE DisconnectOutput(sr1)

\* disconnect(), resumed when the input context's close() resolves.
DisconnectAfterInput(sr) ==
    DisconnectOutput([sr EXCEPT !.inCtx = "closed", !.inputAudioContext = FALSE])

\* disconnect(), resumed when the output context's close() resolves.
DisconnectAfterOutput(sr) ==
    [sv |-> [sr EXCEPT !.outCtx = "closed", !.outputAudioContext = FALSE,
                       !.session = FALSE, !.discCompleted = TRUE],
     pc |-> "done"]

(***************************************************************************)
(*                    connect() and startInputStream()                     *)
(***************************************************************************)

\* connect(), lines 33-35: both AudioContexts are created.
ConnectCreateContexts(sr, outSusp) ==
    [sr EXCEPT !.created = TRUE,
               !.inputAudioContext = TRUE, !.inCtx = "running",
               !.outputAudioContext = TRUE, !.outCtx = "running",
               !.outSuspended = outSusp]

\* connect(), "Setup Output", up to the await of getUserMedia.
ConnectSetupOutput(sr) == [sr EXCEPT !.outputNode = TRUE, !.cpc = "getUserMedia"]

\* connect(), "Connect to Gemini Live": live.connect() is called and not awaited,
\* this.session holds the promise, connect() returns the analyser.
ConnectOpenSession(sr) == [sr EXCEPT !.sess = "connecting", !.session = TRUE, !.cpc = "done"]

\* startInputStream(): nothing without an input context; else the capture graph
\* is created (`created`: the platform created the nodes rather than threw).
startInputStream(sr, created) ==
    IF ~sr.inputAudioContext THEN sr
    ELSE IF created THEN [sr EXCEPT !.inputSource = TRUE, !.scriptProcessor = TRUE]
    ELSE sr

(***************************************************************************)
(*                               App.tsx                                   *)
(***************************************************************************)

IsBlank(text) == text \in {"", " "}

\* return [...prev, newItem]
TranscriptPrepend(prev, newItem) == <<newItem>> \o prev
TranscriptAppend(prev, newItem) == Append(prev, newItem)

\* handleTranscription(text, isUser, isFinal) applied to the list; cb is the
\* ordinal of the callback (it stands for the item's id and timestamp).
handleTranscription(prev, text, isUser, cb) ==
    IF IsBlank(text) THEN prev
    ELSE TranscriptAppend(prev, [text |-> text,
                                 sender |-> IF isUser THEN "user" ELSE "model",
                                 isFinal |-> FALSE,
                                 cb |-> cb])

\* if (!apiKey) throw
ApiKeyMissingIgnored(key) == FALSE
ApiKeyMissing(key) == ~key

\* handleDisconnect(), from its first line to its await (or to its end): the
\* values it leaves, given the service map and the state values of its caller.
\* disc is the service whose disconnect() it called (0: none), pc where that
\* call is.
HandleDisconnect(sv, cs, an) ==
    IF serviceRef # 0 THEN
        LET r == DisconnectStart(sv[serviceRef])
        IN  [svc |-> [sv EXCEPT ![serviceRef] = r.sv],
             hd |-> IF r.pc \in {"awaitIn", "awaitOut"}
                    THEN [hd EXCEPT ![serviceRef] = r.pc] ELSE hd,
             serviceRef |-> IF r.pc = "done" THEN 0 ELSE serviceRef,
             connectionState |-> IF r.pc = "done" THEN "disconnected" ELSE cs,
             audioAnalyser |-> IF r.pc = "done" THEN 0 ELSE an,
             disc |-> serviceRef,
             pc |-> r.pc]
    ELSE
        [svc |-> sv, hd |-> hd, serviceRef |-> 0, connectionState |-> "disconnected",
         audioAnalyser |-> 0, disc |-> 0, pc |-> "none"]

\* The onError callback handleConnect passes to connect(): the error state, the
\* generic message, and handleDisconnect().
OnErrorCallback(sv) == HandleDisconnect(sv, "error", audioAnalyser)

\* A disconnect() call suspended at a close() goes on (r: what it did from there)
\* and, when it returns, handleDisconnect goes on after its await.
ResumeDisconnect(s, r) ==
    /\ svc' = [svc EXCEPT ![s] = r.sv]
    /\ hd' = [hd EXCEPT ![s] = IF r.pc \in {"awaitIn", "awaitOut"} THEN r.pc ELSE "none"]
    /\ IF r.pc = "done"
       THEN /\ serviceRef' = 0
            /\ connectionState' = "disconnected"
            /\ audioAnalyser' = 0
       ELSE UNCHANGED <<serviceRef, connectionState, audioAnalyser>>
    /\ ev' = [k |-> "other", s |-> 0]
    /\ UNCHANGED <<codecVars, apiKey, errorMsg, transcriptionHistory, hsm, cbCount>>

\* connect()'s catch block (onError(err), throw err) followed by handleConnect's
\* catch block, for service i whose connect() failed with message msg.
ConnectFailed(i, msg) ==
    LET r == OnErrorCallback([svc EXCEPT ![i].cpc = "failed"])
    IN  /\ svc' = r.svc
        /\ hd' = r.hd
        /\ serviceRef' = r.serviceRef
        /\ connectionState' = "error"
        /\ errorMsg' = msg
        /\ audioAnalyser' = 0
        /\ ev' = [k |-> "other", s |-> 0]
        /\ UNCHANGED <<codecVars, apiKey, transcriptionHistory, hsm, cbCount>>

(***************************************************************************)
(*                               Actions                                   *)
(***************************************************************************)

\* No continuation is waiting in the microtask queue: the event loop may
\* dispatch the next event.
Idle == hsm = NoCall

\* The user presses "Start Translation" (shown unless connected, disabled while
\* connecting): handleConnect runs up to its first await.
ClickStart ==
    /\ Idle
    /\ connectionState \notin {"connected", "connecting"}
    /\ IF ApiKeyMissing(apiKey) THEN
           /\ connectionState' = "error"
           /\ errorMsg' = "apiKeyMissing"
           /\ audioAnalyser' = 0
           /\ ev' = [k |-> "other", s |-> 0]
           /\ UNCHANGED <<serviceRef, svc>>
       ELSE
           \E i \in Services, inSusp \in BOOLEAN, outSusp \in BOOLEAN :
               /\ ~svc[i].created
               /\ \A j \in Services : j < i => svc[j].created
               /\ connectionState' = "connecting"
               /\ errorMsg' = "null"
               /\ serviceRef' = i
               /\ LET sr == ConnectCreateContexts(svc[i], outSusp)
                  IN  svc' = [svc EXCEPT ![i] =
                                 IF inSusp THEN [sr EXCEPT !.cpc = "resumeIn"]
                                 ELSE IF outSusp THEN [sr EXCEPT !.cpc = "resumeOut"]
                                 ELSE ConnectSetupOutput(sr)]
               /\ ev' = [k |-> "other", s |-> 0]
               /\ UNCHANGED audioAnalyser
    /\ UNCHANGED <<codecVars, apiKey, transcriptionHistory, hd, hsm, cbCount>>

\* A resume() of connect() resolves.  The continuation reads
\* this.outputAudioContext: a TypeError if a disconnect() has nulled it meanwhile.
ConnectResume(i) ==
    /\ Idle
    /\ svc[i].cpc \in {"resumeIn", "resumeOut"}
    /\ IF ~svc[i].outputAudioContext THEN ConnectFailed(i, "connectError")
       ELSE IF svc[i].cpc = "resumeIn" /\ svc[i].outSuspended THEN
           /\ svc' = [svc EXCEPT ![i].cpc = "resumeOut"]
           /\ ev' = [k |-> "other", s |-> 0]
           /\ UNCHANGED <<codecVars, appVars, hd, hsm, cbCount>>
       ELSE
           \E created \in CreateOutcomes(svc[i].outCtx) :
               IF created THEN
                   /\ svc' = [svc EXCEPT ![i] = ConnectSetupOutput(svc[i])]
                   /\ ev' = [k |-> "other", s |-> 0]
                   /\ UNCHANGED <<codecVars, appVars, hd, hsm, cbCount>>
               ELSE ConnectFailed(i, "connectError")

\* getUserMedia() resolves with the microphone stream: the live session is
\* requested, connect() returns, handleConnect sets the connected state.
GetUserMediaGranted(i) ==
    /\ Idle
    /\ svc[i].cpc = "getUserMedia"
    /\ svc' = [svc EXCEPT ![i] = ConnectOpenSession(svc[i])]
    /\ audioAnalyser' = i
    /\ connectionState' = "connected"
    /\ ev' = [k |-> "other", s |-> 0]
    /\ UNCHANGED <<codecVars, apiKey, errorMsg, transcriptionHistory, serviceRef, hd, hsm, cbCount>>

\* getUserMedia() rejects (permission denied, no device).
GetUserMediaDenied(i) ==
    /\ Idle
    /\ svc[i].cpc = "getUserMedia"
    /\ ConnectFailed(i, "micError")

\* The session's onopen callback: startInputStream(stream, sessionPromise).
OnOpen(i) ==
    /\ Idle
    /\ svc[i].sess = "connecting"
    /\ \E created \in CreateOutcomes(svc[i].inCtx) :
           svc' = [svc EXCEPT ![i] = startInputStream([svc[i] EXCEPT !.sess = "open"], created)]
    /\ ev' = [k |-> "other", s |-> 0]
    /\ UNCHANGED <<codecVars, appVars, hd, hsm, cbCount>>

\* Messages of the live session: optional input and output transcription
\* ("none": absent), optional inline audio ("ok": decodable, lasting dur; "bad":
\* decodeAudioData throws), the interruption flag.
Messages(texts, audios, durs, flags) ==
    [inT : texts, outT : texts, audio : audios, dur : durs, interrupted : flags]

NumCallbacks(m) == (IF m.inT # "none" THEN 1 ELSE 0) + (IF m.outT # "none" THEN 1 ELSE 0)

\* The session's onmessage callback: handleServerMessage up to its await, or to
\* its end when the message carries no audio it can play.
OnMessage(i, m) ==
    /\ Idle
    /\ svc[i].sess = "open"
    /\ cbCount + NumCallbacks(m) <= MaxCallbacks
    /\ m.audio = "ok" => Len(svc[i].nodes) < MaxNodes
    /\ LET h1 == IF m.inT # "none"
                 THEN handleTranscription(transcriptionHistory, m.inT, TRUE, cbCount + 1)
                 ELSE transcriptionHistory
           c1 == IF m.inT # "none" THEN cbCount + 1 ELSE cbCount
           h2 == IF m.outT # "none"
                 THEN handleTranscription(h1, m.outT, FALSE, c1 + 1)
                 ELSE h1
           c2 == IF m.outT # "none" THEN c1 + 1 ELSE c1
       IN  /\ transcriptionHistory' = h2
           /\ cbCount' = c2
    /\ IF m.audio # "none" /\ svc[i].outputAudioContext /\ svc[i].outputNode THEN
           /\ svc' = [svc EXCEPT ![i].nextStartTime =
                          ScheduleStart(svc[i].nextStartTime, svc[i].currentTime)]
           /\ hsm' = [s |-> i, audio |-> m.audio, dur |-> m.dur, interrupted |-> m.interrupted,
                       afterDrop |-> ev.k = "dropped"]
           /\ ev' = [k |-> "other", s |-> 0]
       ELSE
           /\ svc' = [svc EXCEPT ![i] = IF m.interrupted THEN Interrupt(svc[i]) ELSE svc[i]]
           /\ hsm' = NoCall
           /\ ev' = IF m.interrupted THEN [k |-> "interrupted", s |-> i] ELSE [k |-> "other", s |-> 0]
    /\ UNCHANGED <<codecVars, apiKey, connectionState, errorMsg, audioAnalyser, serviceRef, hd>>

\* The continuation of handleServerMessage after `await decodeAudioData`: the
\* rest of the try block (or the catch block), then the interruption.
DecodeResume ==
    /\ hsm # NoCall
    /\ LET i == hsm.s
       IN  \E created \in CreateOutcomes(svc[i].outCtx) :
               LET played == hsm.audio = "ok" /\ svc[i].outputAudioContext /\ created
                   sr1 == IF played THEN Scheduled(svc[i], hsm.dur) ELSE DecodeFailed(svc[i])
                   sr2 == IF hsm.interrupted THEN Interrupt(sr1) ELSE sr1
               IN  /\ svc' = [svc EXCEPT ![i] = sr2]
                   /\ ev' = IF hsm.interrupted THEN [k |-> "interrupted", s |-> i]
                            ELSE IF played
                            THEN [k |-> "scheduled", s |-> i, afterDrop |-> hsm.afterDrop]
                            ELSE [k |-> "dropped", s |-> i]
    /\ hsm' = NoCall
    /\ UNCHANGED <<codecVars, appVars, hd, cbCount>>

\* The output context's clock advances; nodes whose start time has come play.
Tick(i) ==
    /\ Idle
    /\ svc[i].outCtx \in {"running", "closing"}
    /\ svc[i].currentTime < MaxTime
    /\ svc' = [svc EXCEPT ![i].currentTime = @ + 1,
                          ![i].nodes = [k \in 1..Len(@) |->
                              IF @[k].state = "scheduled" /\ @[k].start <= svc[i].currentTime + 1
                              THEN [@[k] EXCEPT !.state = "playing"] ELSE @[k]]]
    /\ ev' = [k |-> "other", s |-> 0]
    /\ UNCHANGED <<codecVars, appVars, hd, hsm, cbCount>>

\* A node played to its end: its 'ended' listener deletes it from the set.
Ended(i, n) ==
    /\ Idle
    /\ svc[i].outCtx \in {"running", "closing"}
    /\ n \in 1..Len(svc[i].nodes)
    /\ svc[i].nodes[n].state = "playing"
    /\ EndTime(svc[i].nodes[n]) <= svc[i].currentTime
    /\ svc' = [svc EXCEPT ![i].nodes[n].state = "ended", ![i].sources = @ \ {n}]
    /\ ev' = [k |-> "other", s |-> 0]
    /\ UNCHANGED <<codecVars, appVars, hd, hsm, cbCount>>

\* The session's onerror callback; the session delivers nothing after it.
\* conn: the application showed this service's session as connected.
OnError(i) ==
    /\ Idle
    /\ svc[i].sess \in {"connecting", "open"}
    /\ LET r == OnErrorCallback([svc EXCEPT ![i].sess = "dead"])
       IN  /\ svc' = r.svc
           /\ hd' = r.hd
           /\ serviceRef' = r.serviceRef
           /\ connectionState' = r.connectionState
           /\ audioAnalyser' = r.audioAnalyser
           /\ errorMsg' = "connectionInterrupted"
           /\ ev' = [k |-> "error", s |-> i, disc |-> r.disc, pc |-> r.pc,
                     conn |-> connectionState = "connected" /\ svc[i].session]
    /\ UNCHANGED <<codecVars, apiKey, transcriptionHistory, hsm, cbCount>>

\* The user presses "End Session" (shown while connected): handleDisconnect.
ClickEnd ==
    /\ Idle
    /\ connectionState = "connected"
    /\ LET r == HandleDisconnect(svc, connectionState, audioAnalyser)
       IN  /\ svc' = r.svc
           /\ hd' = r.hd
           /\ serviceRef' = r.serviceRef
           /\ connectionState' = r.connectionState
           /\ audioAnalyser' = r.audioAnalyser
           /\ ev' = [k |-> "other", s |-> 0]
    /\ UNCHANGED <<codecVars, apiKey, errorMsg, transcriptionHistory, hsm, cbCount>>

\* The input context's close() resolves: disconnect() goes on.
CloseInputDone(i) ==
    /\ Idle
    /\ hd[i] = "awaitIn"
    /\ ResumeDisconnect(i, DisconnectAfterInput(svc[i]))

\* The output context's close() resolves: disconnect() and handleDisconnect finish.
CloseOutputDone(i) ==
    /\ Idle
    /\ hd[i] = "awaitOut"
    /\ ResumeDisconnect(i, DisconnectAfterOutput(svc[i]))

\* The script processor's onaudioprocess callback on a live capture graph: past
\* its guard it builds the chunk and hands it to sessionPromise.then, whose
\* callback (sendRealtimeInput) runs at once if the promise is fulfilled and
\* waits for it otherwise.
AudioProcess(i) ==
    /\ Idle
    /\ svc[i].inputSource /\ svc[i].scriptProcessor
    /\ svc[i].inCtx \in {"running", "closing"}
    /\ svc[i].chunks < MaxChunks
    /\ svc' = [svc EXCEPT ![i] =
                  IF ~svc[i].inputAudioContext THEN svc[i]
                  ELSE IF svc[i].sessResolved
                  THEN [svc[i] EXCEPT !.chunks = @ + 1,
                                      !.sentAfterDisc = @ \/ svc[i].discCompleted]
                  ELSE [svc[i] EXCEPT !.chunks = @ + 1, !.queued = @ + 1]]
    /\ ev' = [k |-> "other", s |-> 0]
    /\ UNCHANGED <<codecVars, appVars, hd, hsm, cbCount>>

\* The promise live.connect() returned is fulfilled with the session (the SDK
\* does so at a time of its own after the socket opened): the waiting
\* then-callbacks run, each calling sendRealtimeInput.
SessionResolved(i) ==
    /\ Idle
    /\ svc[i].sess = "open"
    /\ ~svc[i].sessResolved
    /\ svc' = [svc EXCEPT ![i].sessResolved = TRUE,
                          ![i].queued = 0,
                          ![i].sentAfterDisc =
                              @ \/ (svc[i].queued > 0 /\ svc[i].discCompleted)]
    /\ ev' = [k |-> "other", s |-> 0]
    /\ UNCHANGED <<codecVars, appVars, hd, hsm, cbCount>>

\* createPcmBlob applied to the input array.
CreatePcmBlob ==
    /\ pcmStage = "in"
    /\ pcmBlob' = createPcmBlob(pcmIn)
    /\ pcmStage' = "encoded"
    /\ UNCHANGED <<pcmIn, pcmOut, appVars, svcVars, histVars>>

\* decodeAudioData applied to the blob's data.
DecodeAudioData ==
    /\ pcmStage = "encoded"
    /\ pcmOut' = decodeAudioData(pcmBlob)
    /\ pcmStage' = "decoded"
    /\ UNCHANGED <<pcmIn, pcmBlob, appVars, svcVars, histVars>>

(***************************************************************************)
(*                           Specifications                                *)
(***************************************************************************)

AppInit ==
    /\ connectionState = "disconnected"
    /\ errorMsg = "null"
    /\ audioAnalyser = 0
    /\ transcriptionHistory = <<>>
    /\ serviceRef = 0

NoCodec ==
    /\ pcmIn = <<>>
    /\ pcmStage = "idle"
    /\ pcmBlob = <<>>
    /\ pcmOut = <<>>

\* The application as mounted: nothing constructed yet.
Init ==
    /\ NoCodec
    /\ apiKey \in BOOLEAN
    /\ AppInit
    /\ svc = [i \in Services |-> SvcNew]
    /\ hd = [i \in Services |-> "none"]
    /\ hsm = NoCall
    /\ ev = [k |-> "other", s |-> 0]
    /\ cbCount = 0

\* The application life cycle: start and end actions, connects that succeed or
\* fail, session opens and errors, teardown.
Next ==
    \/ ClickStart
    \/ \E i \in Services : ConnectResume(i)
    \/ \E i \in Services : GetUserMediaGranted(i)
    \/ \E i \in Services : GetUserMediaDenied(i)
    \/ \E i \in Services : OnOpen(i)
    \/ \E i \in Services : OnError(i)
    \/ ClickEnd
    \/ \E i \in Services : CloseInputDone(i)
    \/ \E i \in Services : CloseOutputDone(i)

Spec == Init /\ [][Next]_vars

\* One service right after handleConnect completed: connect() has returned, the
\* session is requested and not open yet, the application shows "connected".
SessionInit ==
    /\ NoCodec
    /\ apiKey = TRUE
    /\ connectionState = "connected"
    /\ errorMsg = "null"
    /\ audioAnalyser = 1
    /\ transcriptionHistory = <<>>
    /\ serviceRef = 1
    /\ svc = [i \in Services |->
                 IF i = 1
                 THEN ConnectOpenSession(ConnectSetupOutput(ConnectCreateContexts(SvcNew, FALSE)))
                 ELSE SvcNew]
    /\ hd = [i \in Services |-> "none"]
    /\ hsm = NoCall
    /\ ev = [k |-> "other", s |-> 0]
    /\ cbCount = 0

\* Messages of a session that carries audio: a chunk that decodes, a chunk that
\* does not, or none, each with or without the interruption flag.
SessionMessages ==
    Messages({"none"}, {"ok"}, Durations, BOOLEAN)
    \cup Messages({"none"}, {"none", "bad"}, {1}, BOOLEAN)

SessionNext ==
    \/ OnOpen(1)
    \/ \E m \in SessionMessages : OnMessage(1, m)
    \/ DecodeResume
    \/ Tick(1)
    \/ \E n \in 1..MaxNodes : Ended(1, n)
    \/ ClickEnd
    \/ CloseInputDone(1)
    \/ CloseOutputDone(1)

SpecSession == SessionInit /\ [][SessionNext]_vars

\* The playback scheduler of one connected service: audio, interruptions, the
\* clock and the 'ended' events, with no teardown.
PlaybackNext ==
    \/ OnOpen(1)
    \/ \E m \in SessionMessages : OnMessage(1, m)
    \/ DecodeResume
    \/ Tick(1)
    \/ \E n \in 1..MaxNodes : Ended(1, n)

SpecPlayback == SessionInit /\ [][PlaybackNext]_vars

\* Sessions that carry transcripts, started and ended by the user (contexts
\* that start running, microphone granted, no session error).
TranscriptMessages == Messages({"none"} \cup Texts, {"none"}, {1}, {FALSE})

TranscriptNext ==
    \/ ClickStart
    \/ \E i \in Services : GetUserMediaGranted(i)
    \/ \E i \in Services : OnOpen(i)
    \/ \E i \in Services : \E m \in TranscriptMessages : OnMessage(i, m)
    \/ ClickEnd
    \/ \E i \in Services : CloseInputDone(i)
    \/ \E i \in Services : CloseOutputDone(i)

SpecTranscript == Init /\ [][TranscriptNext]_vars

\* The application life cycle with microphone capture: the chunks captured and
\* the moment the session promise is fulfilled.
CaptureNext ==
    \/ Next
    \/ \E i \in Services : AudioProcess(i)
    \/ \E i \in Services : SessionResolved(i)

SpecCapture == Init /\ [][CaptureNext]_vars

CodecInit ==
    /\ pcmIn \in PcmInputs
    /\ pcmStage = "in"
    /\ pcmBlob = <<>>
    /\ pcmOut = <<>>
    /\ apiKey = TRUE
    /\ AppInit
    /\ svc = [i \in Services |-> SvcNew]
    /\ hd = [i \in Services |-> "none"]
    /\ hsm = NoCall
    /\ ev = [k |-> "other", s |-> 0]
    /\ cbCount = 0

CodecNext == CreatePcmBlob \/ DecodeAudioData

SpecCodec == CodecInit /\ [][CodecNext]_vars

(***************************************************************************)
(*                        Properties: the PCM codec                        *)
(***************************************************************************)

Abs(x) == IF x < 0 THEN 0 - x ELSE x

\* Sample i of the input lies in [-1, 1].
InRange(i) == Abs(pcmIn[i]) <= SampleDen

\* 32768 * SampleDen * |decoded - original| for sample i: the round-trip error
\* in units of 1 / (32768 * SampleDen).
RoundTripError(i) == Abs(32768 * pcmIn[i] - pcmOut[i] * SampleDen)

\* C5, as stated: every sample in [-1, 1] comes back from createPcmBlob and
\* decodeAudioData within 1/32768 of its value.
C5_RoundTripWithinOneStep ==
    pcmStage = "decoded" =>
        /\ Len(pcmOut) = Len(pcmIn)
        /\ \A i \in 1..Len(pcmIn) : InRange(i) => RoundTripError(i) <= SampleDen

\* C5, amended: every sample in [-1, 1] comes back within less than 2/32768 of
\* its value, and within less than 1/32768 when it is not positive (positive
\* samples are scaled by 0x7FFF and divided by 32768).
C5_RoundTripWithinTwoSteps ==
    pcmStage = "decoded" =>
        /\ Len(pcmOut) = Len(pcmIn)
        /\ \A i \in 1..Len(pcmIn) :
               InRange(i) =>
                   /\ RoundTripError(i) < 2 * SampleDen
                   /\ pcmIn[i] <= 0 => RoundTripError(i) < SampleDen

\* A decoded array of two samples, one of them positive and off by more than 1/32768.
C5_Witness ==
    /\ pcmStage = "decoded"
    /\ Len(pcmIn) = 2
    /\ \E i \in 1..2 : InRange(i) /\ pcmIn[i] > 0 /\ RoundTripError(i) > SampleDen
    /\ \E i \in 1..2 : InRange(i) /\ pcmIn[i] < 0

\* The input with every sample above 1 replaced by 1 and every sample below -1 by -1.
Saturated(data) ==
    [i \in 1..Len(data) |->
        IF data[i] > SampleDen THEN SampleDen
        ELSE IF data[i] < 0 - SampleDen THEN 0 - SampleDen
        ELSE data[i]]

\* C6: createPcmBlob gives an array with samples outside [-1, 1] the blob it
\* gives the array with those samples replaced by 1 or -1, and the 16-bit values
\* in it are 32767 for a sample above 1 and -32768 for a sample below -1 (no
\* wrap-around).
C6_ClampedLikeTheBounds ==
    pcmStage = "encoded" =>
        /\ pcmBlob = createPcmBlob(Saturated(pcmIn))
        /\ \A i \in 1..Len(pcmIn) :
               /\ pcmIn[i] > SampleDen => decodeAudioData(pcmBlob)[i] = 32767
               /\ pcmIn[i] < 0 - SampleDen => decodeAudioData(pcmBlob)[i] = 0 - 32768

\* An encoded array with a sample above 1 and a sample below -1.
C6_Witness ==
    /\ pcmStage = "encoded"
    /\ \E i \in 1..Len(pcmIn) : pcmIn[i] > SampleDen
    /\ \E i \in 1..Len(pcmIn) : pcmIn[i] < 0 - SampleDen

(***************************************************************************)
(*                   Properties: the playback scheduler                    *)
(***************************************************************************)

\* The nodes of service i that sound now or are still to sound.
Pending(i) == {k \in 1..Len(svc[i].nodes) : svc[i].nodes[k].state \in {"scheduled", "playing"}}

\* C1, as stated: when handleServerMessage has processed a message with the
\* interruption flag, the set of sources is empty, the watermark equals the
\* output context's current time, and no node is left to start or to sound.
C1_InterruptionResetsToNow ==
    ev.k = "interrupted" =>
        /\ svc[ev.s].sources = {}
        /\ svc[ev.s].nextStartTime = svc[ev.s].currentTime
        /\ Pending(ev.s) = {}

\* C1, amended: after the interruption the set of sources is empty, no node is
\* left to start or to sound, and the watermark is 0 (not the current time);
\* the first node scheduled after an interruption starts at the current time of
\* its scheduling.
C1_InterruptionResetsToZero ==
    /\ ev.k = "interrupted" =>
           /\ svc[ev.s].sources = {}
           /\ svc[ev.s].nextStartTime = 0
           /\ Pending(ev.s) = {}
    /\ \A i \in Services : \A k \in 1..Len(svc[i].nodes) :
           ~svc[i].nodes[k].chained => svc[i].nodes[k].start = svc[i].nodes[k].at

\* An interruption at a time after 0 that cancelled a node before it started and
\* cut off a playing one.
C1_Witness ==
    /\ ev.k = "interrupted"
    /\ svc[1].currentTime > 0
    /\ \E k \in 1..Len(svc[1].nodes) : svc[1].nodes[k].state = "cancelled"
    /\ \E k \in 1..Len(svc[1].nodes) : svc[1].nodes[k].state = "stopped"

\* Node k of service i follows node k-1 with no interruption in between.
Follows(i, k) == k > 1 /\ svc[i].nodes[k].chained

\* C2, as stated: with no interruption in between, every node starts where the
\* node before it ends (first start plus the durations before it).
C2_BackToBack ==
    \A i \in Services : \A k \in 1..Len(svc[i].nodes) :
        Follows(i, k) =>
            svc[i].nodes[k].start = svc[i].nodes[k - 1].start + svc[i].nodes[k - 1].dur

\* C2, amended: with no interruption in between, every node starts where the
\* node before it ends or at the current time of its scheduling, whichever is
\* later: never an overlap, and no gap when the chunk arrives before the node
\* before it has ended.
C2_BackToBackOrNow ==
    \A i \in Services : \A k \in 1..Len(svc[i].nodes) :
        Follows(i, k) =>
            svc[i].nodes[k].start =
                Max(svc[i].nodes[k - 1].start + svc[i].nodes[k - 1].dur, svc[i].nodes[k].at)

\* Three nodes with no interruption: the second after a gap (its chunk came
\* late), the third right at the end of the second.
C2_Witness ==
    /\ Len(svc[1].nodes) = 3
    /\ Follows(1, 2) /\ Follows(1, 3)
    /\ svc[1].nodes[2].start > svc[1].nodes[1].start + svc[1].nodes[1].dur
    /\ svc[1].nodes[3].start = svc[1].nodes[2].start + svc[1].nodes[2].dur

\* The end of the node before node k when node k follows it, else 0.
PrevEnd(i, k) ==
    IF Follows(i, k) THEN svc[i].nodes[k - 1].start + svc[i].nodes[k - 1].dur ELSE 0

\* C10: handling a chunk whose decoding fails adds no node and reports nothing
\* to the application: the step up to the await raises the watermark to the
\* current time at most, and the step after it, unless the same message carries
\* the interruption flag, leaves every node, the set of sources and the
\* watermark as they are; the chunk handled right after a dropped one is
\* scheduled where it would have been without it.
C10_DecodeFailureDropsOnlyTheChunk ==
    /\ [][(hsm = NoCall /\ hsm' # NoCall /\ hsm'.audio = "bad") =>
            /\ svc'[hsm'.s].nodes = svc[hsm'.s].nodes
            /\ svc'[hsm'.s].sources = svc[hsm'.s].sources
            /\ svc'[hsm'.s].nextStartTime =
                   Max(svc[hsm'.s].nextStartTime, svc[hsm'.s].currentTime)
            /\ errorMsg' = errorMsg
            /\ connectionState' = connectionState]_vars
    /\ [][(hsm # NoCall /\ hsm.audio = "bad") =>
            /\ Len(svc'[hsm.s].nodes) = Len(svc[hsm.s].nodes)
            /\ errorMsg' = errorMsg
            /\ connectionState' = connectionState
            /\ ~hsm.interrupted =>
                   /\ svc'[hsm.s].nodes = svc[hsm.s].nodes
                   /\ svc'[hsm.s].sources = svc[hsm.s].sources
                   /\ svc'[hsm.s].nextStartTime = svc[hsm.s].nextStartTime]_vars
    /\ []((ev.k = "scheduled" /\ ev.afterDrop) =>
            LET n == Len(svc[ev.s].nodes)
            IN  /\ svc[ev.s].nodes[n].start = Max(PrevEnd(ev.s, n), svc[ev.s].nodes[n].at)
                /\ svc[ev.s].nextStartTime = svc[ev.s].nodes[n].start + svc[ev.s].nodes[n].dur
                /\ n \in svc[ev.s].sources)

\* A chunk scheduled right after a dropped one, right behind a node that was
\* scheduled before the dropped chunk and is still in the set of sources.
C10_Witness ==
    /\ ev.k = "scheduled"
    /\ ev.afterDrop
    /\ LET n == Len(svc[1].nodes)
       IN  /\ n >= 2
           /\ svc[1].nodes[n].chained
           /\ n - 1 \in svc[1].sources
           /\ svc[1].nodes[n].start = svc[1].nodes[n - 1].start + svc[1].nodes[n - 1].dur

(***************************************************************************)
(*                         Properties: teardown                            *)
(***************************************************************************)

\* C3, as stated: no disconnect() call ends in an exception and no audio
\* context has close() called on it twice.
C3_DisconnectIdempotent ==
    \A i \in Services :
        /\ ~svc[i].discThrew
        /\ svc[i].inCloseCalls <= 1
        /\ svc[i].outCloseCalls <= 1

\* Service i is torn down.
TornDown(i) ==
    /\ ~svc[i].inputSource
    /\ ~svc[i].scriptProcessor
    /\ svc[i].sources = {}
    /\ ~svc[i].inputAudioContext
    /\ ~svc[i].outputAudioContext
    /\ svc[i].inCtx = "closed"
    /\ svc[i].outCtx = "closed"
    /\ ~svc[i].session

\* C4, as stated: once a disconnect() call of a service has completed, the
\* service is torn down.
C4_CompletedDisconnectTornDown ==
    \A i \in Services : svc[i].discCompleted => TornDown(i)

\* C8, as stated (its safety part): when the error event of a session that the
\* application shows as connected fires, disconnect() of that session's service
\* is called.
C8_ErrorTearsDownTheService ==
    (ev.k = "error" /\ ev.conn) => ev.disc = ev.s

(***************************************************************************)
(*                       Properties: the application                       *)
(***************************************************************************)

\* C7: every step keeps the transcript items it finds, in place, and adds items
\* only at the end, in the order of the callbacks that brought them.
C7_TranscriptAppendOnly ==
    [][LET h == transcriptionHistory
           h2 == transcriptionHistory'
       IN  /\ Len(h2) >= Len(h)
           /\ SubSeq(h2, 1, Len(h)) = h
           /\ \A k \in (Len(h) + 1)..Len(h2) :
                  /\ h2[k].cb > cbCount
                  /\ h2[k].cb <= cbCount'
                  /\ k > 1 => h2[k].cb > h2[k - 1].cb]_vars

\* A transcript of a model item followed by a user item, the first from a
\* session that was disconnected, the second from a session started after it.
C7_Witness ==
    /\ Len(transcriptionHistory) = 2
    /\ transcriptionHistory[1].sender = "model"
    /\ transcriptionHistory[2].sender = "user"
    /\ svc[1].discCompleted
    /\ svc[2].sess = "open"
    /\ cbCount = 2

\* C9: without an API key every step of the application ends in the error
\* state with the missing-key message, and no service, audio context,
\* microphone stream or session exists.
C9_MissingKeyFailsFast ==
    [][~apiKey =>
          /\ connectionState' = "error"
          /\ errorMsg' = "apiKeyMissing"
          /\ serviceRef' = 0
          /\ audioAnalyser' = 0
          /\ \A i \in Services : svc'[i] = SvcNew]_vars

\* The start action was taken without an API key.
C9_Witness ==
    /\ ~apiKey
    /\ connectionState = "error"
    /\ errorMsg = "apiKeyMissing"

\* Service i is the last one started, its connect() failed on the microphone,
\* and every handler that attempt triggered has run.
MicAttemptSettled(i) ==
    /\ svc[i].cpc = "failed"
    /\ errorMsg = "micError"
    /\ \A j \in Services : j > i => ~svc[j].created
    /\ \A j \in Services : hd[j] = "none"

\* C11, as stated: once every handler of a connect attempt that failed on the
\* microphone has run, and until the next start action, the connection state is
\* the error state and an error message is displayed.
C11_MicDenialEndsInErrorState ==
    \A i \in Services :
        MicAttemptSettled(i) => (connectionState = "error" /\ errorMsg # "null")

Audible(i) ==
    {k \in 1..Len(svc[i].nodes) : svc[i].nodes[k].state \in {"scheduled", "playing", "ended"}}

\* The intervals [start, start + dur) of nodes a and b of service i are disjoint.
Disjoint(i, a, b) ==
    \/ svc[i].nodes[a].start + svc[i].nodes[a].dur <= svc[i].nodes[b].start
    \/ svc[i].nodes[b].start + svc[i].nodes[b].dur <= svc[i].nodes[a].start

\* C13: the playback intervals of any two nodes in the set of sources are
\* disjoint; so are those of any two nodes that were never stopped, and every
\* node in the set is one of these.
C13_ActiveSegmentsDisjoint ==
    \A i \in Services :
        /\ svc[i].sources \subseteq Audible(i)
        /\ \A a \in Audible(i) : \A b \in Audible(i) : a # b => Disjoint(i, a, b)

\* After an interruption that cut off a playing node, two nodes are in the set
\* of sources, the second starting where the first ends.
C13_Witness ==
    /\ \E k \in 1..Len(svc[1].nodes) : svc[1].nodes[k].state = "stopped"
    /\ \E a \in svc[1].sources : \E b \in svc[1].sources :
           /\ svc[1].nodes[a].start > 0
           /\ svc[1].nodes[b].start = svc[1].nodes[a].start + svc[1].nodes[a].dur

\* C14, as stated: whenever the connection state is the connected state,
\* serviceRef holds the service whose connect() produced that state (the one
\* whose analyser handleConnect stored together with the state).
C14_ConnectedHoldsItsService ==
    connectionState = "connected" => (serviceRef # 0 /\ serviceRef = audioAnalyser)

\* C15, as stated: no sendRealtimeInput call of a service occurs after a
\* disconnect() call of that service has completed.
C15_NoSendAfterDisconnect ==
    \A i \in Services : ~svc[i].sentAfterDisc

====
